---------------------------- MODULE Spec2Model ----------------------------
(***************************************************************************)
(* Buffer pool of qzeng2490/bustub: BufferPoolManager, FrameHeader,        *)
(* ReadPageGuard / WritePageGuard, LRUKReplacer and DiskScheduler.         *)
(*                                                                         *)
(* Caller threads run the public operations; every blocking point of the   *)
(* code (pool latch, frame latch, completion future) is a position of the  *)
(* thread (pc).  Code that runs between two blocking points while the pool *)
(* latch is held is one step, because no other thread can observe it.      *)
(* The disk worker is its own process and serves the request queue.        *)
(*                                                                         *)
(* A page image (BUSTUB_PAGE_SIZE bytes) is one value of Bytes.            *)
(* size_t pin counts are kept as integers modulo 2^64: the value -1 stands *)
(* for 2^64-1, and "pin_count > 0" of the code is "pin_count # 0".         *)
(***************************************************************************)
EXTENDS Integers, Sequences, FiniteSets, Bags, TLC

\* ------------------------------------------------------------ bounds
NumThreads == 2      \* caller threads
NumFrames  == 2      \* num_frames of the pool
NumPages   == 3      \* page ids in use: 0 .. NumPages-1
MaxByte    == 1      \* page images range over 0 .. MaxByte
MaxGuards  == 2      \* guards one thread holds at a time
MaxTime    == 4      \* RecordAccess calls in one behaviour
MaxTimeRace == 5     \* RecordAccess calls in one behaviour of SpecFetch
MaxObjs    == 3      \* guard objects the caller of SpecGuard has at a time
MaxNew     == 6      \* NewPage calls in one behaviour
MaxTimeRep == 6      \* RecordAccess calls in one behaviour of the replacer alone
MaxKey     == 3      \* keys 1..MaxKey are given to the skip list
MaxHeight  == 2      \* template parameter MaxHeight of SkipList
K          == 2      \* k_dist of the replacer

Threads == 1..NumThreads
Frames  == 0..(NumFrames - 1)
Pages   == 0..(NumPages - 1)
Bytes   == 0..MaxByte

NoThread == 0
NoFrame  == -1       \* frame_id_t -1 / null data pointer
NoPage   == -1       \* INVALID_PAGE_ID / std::nullopt

VARIABLES
  page_table,      \* page id -> frame id, NoFrame when absent
  free_frames,     \* std::list<frame_id_t>
  frames,          \* frame id -> [pin_count, is_dirty, data]
  rwlatch,         \* frame id -> [writer, readers]: holders of FrameHeader::rwlatch_
  bpm_latch,       \* owner of *bpm_latch_, NoThread when free
  replacer,        \* LRUKReplacer state
  disk,            \* on-disk image of every page
  request_queue,   \* DiskScheduler::request_queue_
  fut,             \* thread -> state of the future it waits on
  pc,              \* thread -> position
  op,              \* thread -> the call it is in
  guards,          \* thread -> bag of the valid guards it owns
  active,          \* the threads that issue calls
  history,         \* whether `last` is recorded
  background_thread,  \* DiskScheduler::background_thread_: "running" or "exited"
  last,            \* history: the step taken last
  written,         \* history: page id -> the bytes last stored through a write guard,
                   \* and whether the page lost its frame since
  next_page_id,    \* BufferPoolManager::next_page_id_
  new_ids,         \* history: thread -> the ids NewPage returned to it, in order
  objs,            \* the guard objects of caller 1, by slot; <<>> when the caller's
                   \* guards are followed by value only (guards)
  header,          \* SkipList::header_: level -> the node header_->links_[level]
  nodes,           \* node id -> the SkipNode allocated under it: key, height, links
  elems,           \* history: the set of keys a reference set would hold
  ret              \* history: the last call on the skip list and what it returned

listvars == <<header, nodes, elems, ret>>

vars == <<page_table, free_frames, frames, rwlatch, bpm_latch, replacer, disk,
          request_queue, fut, pc, op, guards, active, history, background_thread,
          listvars, next_page_id, new_ids, objs, last, written>>

poolvars == <<page_table, free_frames, frames, replacer, request_queue, disk>>

\* ------------------------------------------------------------ SkipList
Keys   == 1..MaxKey
Levels == 0..(MaxHeight - 1)

\* One node more than keys, so that a second node with a key already stored
\* could be allocated.
MaxNodes == MaxKey + 1
NodeIds  == 1..MaxNodes

\* nullptr, and the name of the header node among the node ids.
Nil      == -1
HeaderId == 0

\* A node id with no node allocated under it.
NoNode == [key |-> 0, height |-> 0, links |-> [l \in Levels |-> Nil]]

NoRet == [call |-> "", key |-> 0, ok |-> FALSE, count |-> 0]

\* compare_: std::less.
Compare(a, b) == a < b

\* Mutant of Equivalent: no two keys are equivalent.
Equivalent_Never(a, b) == FALSE

\* Lines 96, 137, 168: neither key compares less than the other.
Equivalent(a, b) == ~Compare(a, b) /\ ~Compare(b, a)

\* SkipNode::Next(level) of node n; the header has MaxHeight links.
NextNode(h, ns, n, level) ==
  IF n = HeaderId THEN h[level]
  ELSE IF level >= ns[n].height THEN Nil
  ELSE ns[n].links[level]

\* The inner while loop of Insert, Erase and Contains: move forward on `level`
\* while the next node's key is less than `key`.
RECURSIVE Walk(_, _, _, _, _)
Walk(h, ns, curr, level, key) ==
  LET nx == NextNode(h, ns, curr, level) IN
  IF nx # Nil /\ Compare(ns[nx].key, key) THEN Walk(h, ns, nx, level, key) ELSE curr

\* predecessors[level]: the outer loop runs from MaxHeight - 1 down to 0 and
\* starts each level where the level above stopped.
RECURSIVE Predecessor(_, _, _, _)
Predecessor(h, ns, level, key) ==
  Walk(h, ns,
       IF level = MaxHeight - 1 THEN HeaderId ELSE Predecessor(h, ns, level + 1, key),
       level, key)

\* Contains, and the check Insert and Erase make after the same search.
Contains(h, ns, key) ==
  LET next_node == NextNode(h, ns, Predecessor(h, ns, 0, key), 0) IN
  next_node # Nil /\ Equivalent(key, ns[next_node].key)

\* SetNext(level, node) on every predecessors[level] with level < height: the
\* links of node m afterwards.  SetNext does nothing at a level the node lacks.
Relinked(h, ns, m, links, key, height, to) ==
  [l \in Levels |->
     IF l < height /\ Predecessor(h, ns, l, key) = m
        /\ (m = HeaderId \/ l < ns[m].height)
     THEN to[l] ELSE links[l]]

\* The node ids no node is allocated under.
FreeIds(ns) == {n \in NodeIds : ns[n].height = 0}

\* std::shared_ptr: a node that no link refers to any more is freed.
Collect(h, ns) ==
  [n \in NodeIds |->
     IF \/ \E l \in Levels : h[l] = n
        \/ \E m \in NodeIds, l \in Levels : l < ns[m].height /\ ns[m].links[l] = n
     THEN ns[n] ELSE NoNode]

\* Insert of a key that is not there, with RandomHeight() = new_height, into
\* the node id n: header links and nodes afterwards.
InsertedHeader(h, ns, key, new_height, n) ==
  Relinked(h, ns, HeaderId, h, key, new_height, [l \in Levels |-> n])

InsertedNodes(h, ns, key, new_height, n) ==
  [m \in NodeIds |->
     IF m = n
     THEN [key |-> key, height |-> new_height,
           links |-> [l \in Levels |->
                        IF l < new_height
                        THEN NextNode(h, ns, Predecessor(h, ns, l, key), l) ELSE Nil]]
     ELSE [ns[m] EXCEPT !.links =
             Relinked(h, ns, m, @, key, new_height, [l \in Levels |-> n])]]

\* Erase of a key that is there: every predecessor below the target's height is
\* linked to what follows the target.
Target(h, ns, key) == NextNode(h, ns, Predecessor(h, ns, 0, key), 0)

ErasedHeader(h, ns, key) ==
  LET target_node == Target(h, ns, key) IN
  Relinked(h, ns, HeaderId, h, key, ns[target_node].height,
           [l \in Levels |-> NextNode(h, ns, target_node, l)])

ErasedNodes(h, ns, key) ==
  LET target_node == Target(h, ns, key) IN
  [m \in NodeIds |->
     [ns[m] EXCEPT !.links =
        Relinked(h, ns, m, @, key, ns[target_node].height,
                 [l \in Levels |-> NextNode(h, ns, target_node, l)])]]

\* Drop: on every level the chain from the header is walked and each link on it
\* is moved out, which leaves it null.
RECURSIVE DropChain(_, _, _)
DropChain(ns, curr, i) ==
  IF curr = Nil THEN ns
  ELSE DropChain([ns EXCEPT ![curr].links[i] = Nil], ns[curr].links[i], i)

RECURSIVE Drop_(_, _, _)
Drop_(h, ns, i) ==
  IF i = MaxHeight THEN ns ELSE Drop_(h, DropChain(ns, h[i], i), i + 1)

\* Size: the nodes counted along level 0 from `curr`.
RECURSIVE Count(_, _, _)
Count(h, ns, curr) ==
  IF curr = Nil THEN 0 ELSE 1 + Count(h, ns, NextNode(h, ns, curr, 0))

Size(h, ns) == Count(h, ns, NextNode(h, ns, HeaderId, 0))

Empty(h, ns) == NextNode(h, ns, HeaderId, 0) = Nil

\* ------------------------------------------------------------ FrameHeader
NewFrame == [pin_count |-> 0, is_dirty |-> FALSE, data |-> 0]

\* FrameHeader::Reset: zero the buffer, pin_count_.store(0), is_dirty_ = false.
Reset(fh) == [pin_count |-> 0, is_dirty |-> FALSE, data |-> 0]

\* Mutant of Pinned: DeletePage does not look at the pin count.
Pinned_Never(fh) == FALSE

\* DeletePage, line 52: the page is still in use.
Pinned(fh) == fh.pin_count # 0

\* Mutant of NeedsWriteBack: a dirty victim is reused without a write-back.
NeedsWriteBack_Never(fh) == FALSE

\* CheckedReadPage / CheckedWritePage, lines 118 / 180: the victim is written back.
NeedsWriteBack(fh) == fh.is_dirty

\* Mutant of IsClean: FlushPage writes whether or not the frame is dirty.
IsClean_Never(fh) == FALSE

\* FlushPage, line 280: nothing to write.
IsClean(fh) == ~fh.is_dirty

\* WritePageGuard constructor, line 138: taking write access marks the frame dirty.
DirtyOnAcquire(kind, dirty) == IF kind = "write" THEN TRUE ELSE dirty

\* Drop, lines 102 / 219: this guard held the last pin.
LastUnpin(prev) == prev = 1

\* `written` of a page whose image is not defined (the page was deleted).
NoImage == [byte |-> -1, evicted |-> FALSE]

\* ------------------------------------------------------------ LRUKReplacer
NewReplacer ==
  [node_store        |-> {},
   access_history    |-> [f \in Frames |-> <<>>],
   evictable         |-> [f \in Frames |-> FALSE],
   curr_size         |-> 0,
   current_timestamp |-> 0]

\* Mutant of RecordAccess: the oldest timestamp is never popped.
RecordAccess_NoPop(r, f) ==
  [r EXCEPT !.current_timestamp = @ + 1,
            !.node_store = @ \cup {f},
            !.evictable[f] = IF f \in r.node_store THEN @ ELSE FALSE,
            !.access_history[f] = Append(@, r.current_timestamp + 1)]

RecordAccess(r, f) ==
  LET ts   == r.current_timestamp + 1
      hist == Append(r.access_history[f], ts)
      kept == IF Len(hist) > K THEN Tail(hist) ELSE hist
  IN [r EXCEPT !.current_timestamp = ts,
               !.node_store = @ \cup {f},
               !.evictable[f] = IF f \in r.node_store THEN @ ELSE FALSE,
               !.access_history[f] = kept]

\* Mutant of Rejected: the clock is advanced before the frame id is checked.
Rejected_Ticked(r) == [r EXCEPT !.current_timestamp = @ + 1]

\* RecordAccess, lines 112-114, and SetEvictable, lines 154-156: the replacer a
\* call leaves when it throws std::invalid_argument on the frame id.
Rejected(r) == r

\* Mutant of SetEvictable: the replacer ignores the call.
SetEvictable_Ignore(r, f, set_evictable) == r

SetEvictable(r, f, set_evictable) ==
  IF f \notin r.node_store THEN r
  ELSE IF r.evictable[f] /\ ~set_evictable
       THEN [r EXCEPT !.evictable[f] = FALSE, !.curr_size = @ - 1]
  ELSE IF ~r.evictable[f] /\ set_evictable
       THEN [r EXCEPT !.evictable[f] = TRUE, !.curr_size = @ + 1]
  ELSE r

\* The iteration orders std::unordered_map may give the loop over node_store_.
Orders(S) ==
  {o \in [1..Cardinality(S) -> S] : \A i, j \in 1..Cardinality(S) : o[i] = o[j] => i = j}

\* Mutant of EvictVisit: the first evictable frame met is kept.
EvictVisit_First(r, f, acc) ==
  IF ~r.evictable[f] \/ acc.evict_frame # NoFrame THEN acc
  ELSE [acc EXCEPT !.evict_frame = f]

\* One pass of the loop body of Evict over the frame `order[i]`.
EvictVisit(r, f, acc) ==
  IF ~r.evictable[f] THEN acc
  ELSE IF Len(r.access_history[f]) < K
  THEN IF Len(r.access_history[f]) = 0 THEN acc
       ELSE LET oldest_timestamp == Head(r.access_history[f])
            IN IF ~acc.found_inf \/ oldest_timestamp < acc.earliest_timestamp
               THEN [acc EXCEPT !.evict_frame = f,
                                !.earliest_timestamp = oldest_timestamp,
                                !.found_inf = TRUE]
               ELSE acc
  ELSE IF ~acc.found_inf
  THEN LET backward_k_distance == r.current_timestamp - Head(r.access_history[f])
       IN IF acc.evict_frame = NoFrame \/ backward_k_distance > acc.max_backward_k_distance
          THEN [acc EXCEPT !.evict_frame = f,
                           !.max_backward_k_distance = backward_k_distance]
          ELSE acc
  ELSE acc

RECURSIVE EvictScan(_, _, _, _)
EvictScan(r, order, i, acc) ==
  IF i > Len(order) THEN acc
  ELSE EvictScan(r, order, i + 1, EvictVisit(r, order[i], acc))

\* The frame Evict returns under one iteration order, NoFrame for std::nullopt.
\* earliest_timestamp starts at a value that is never read (found_inf is false).
EvictChoice(r, order) ==
  IF r.curr_size = 0 THEN NoFrame
  ELSE EvictScan(r, order, 1,
                 [evict_frame |-> NoFrame, max_backward_k_distance |-> 0,
                  earliest_timestamp |-> 0, found_inf |-> FALSE]).evict_frame

\* Mutant of EvictRemove: the victim stays tracked.
EvictRemove_Keep(r, v) == r

\* The replacer after Evict returned frame v.
EvictRemove(r, v) ==
  [r EXCEPT !.node_store = @ \ {v},
            !.access_history[v] = <<>>,
            !.evictable[v] = FALSE,
            !.curr_size = @ - 1]

\* Mutant of Remove: a tracked frame is erased whether evictable or not.
Remove_Any(r, f) ==
  IF f \notin r.node_store THEN r
  ELSE [r EXCEPT !.node_store = @ \ {f},
                 !.access_history[f] = <<>>,
                 !.evictable[f] = FALSE,
                 !.curr_size = IF r.evictable[f] THEN @ - 1 ELSE @]

\* Mutant of Remove: the frame is forgotten whatever its state, size untouched.
Remove_Forget(r, f) == [r EXCEPT !.node_store = @ \ {f}]

\* Remove: an untracked frame returns at once, a non-evictable one throws before
\* anything is changed, an evictable one is erased and curr_size_ decremented.
Remove(r, f) ==
  IF f \notin r.node_store THEN r
  ELSE IF ~r.evictable[f] THEN r
  ELSE [r EXCEPT !.node_store = @ \ {f},
                 !.access_history[f] = <<>>,
                 !.evictable[f] = FALSE,
                 !.curr_size = @ - 1]

\* RecordAccess and SetEvictable throw on a frame id outside [0, replacer_size_).
ValidId(f) == f >= 0 /\ f < NumFrames

\* The frame ids a caller of the replacer may pass.
FrameIds == (0 - 1) .. NumFrames

\* The tracked evictable frames, and those of them with fewer than k accesses.
Candidates(r) == {f \in r.node_store : r.evictable[f]}
Infinite(r)   == {f \in Candidates(r) : Len(r.access_history[f]) < K}


\* ------------------------------------------------------------ guard objects
\* A guard object of the caller: a slot holds no object (live = FALSE), a valid
\* guard, or a guard that was dropped or moved from (is_valid = FALSE).  `kind`
\* is the class of the object, ReadPageGuard or WritePageGuard.
NoObj == [live |-> FALSE, is_valid |-> FALSE, kind |-> "none", page |-> NoPage,
          frame |-> NoFrame]

NewObj(g) == [live |-> TRUE, is_valid |-> TRUE, kind |-> g.kind, page |-> g.page,
              frame |-> g.frame]

GuardOf(o) == [kind |-> o.kind, page |-> o.page, frame |-> o.frame]

\* Mutant of MovedFrom: the move leaves the source as it was.
MovedFrom_Keep(that) == that

\* Move constructor / operator=, lines 26-33 / 45-53: frame_ is moved out of
\* `that`, that.is_valid_ = false, that.page_id_ = INVALID_PAGE_ID.
MovedFrom(that) == [that EXCEPT !.is_valid = FALSE, !.page = NoPage, !.frame = NoFrame]

\* Drop, lines 107-112 / 224-229: is_valid_ = false, page_id_ = INVALID_PAGE_ID,
\* frame_.reset().
Dropped(o) == [o EXCEPT !.is_valid = FALSE, !.page = NoPage, !.frame = NoFrame]

Slots == DOMAIN objs

\* The caller has a variable left for one more guard.
HasRoom == objs = <<>> \/ \E s \in Slots : ~objs[s].live

FreeSlot == CHOOSE s \in Slots : ~objs[s].live /\ \A r \in Slots : ~objs[r].live => s <= r

SlotOf(g) ==
  CHOOSE s \in Slots : objs[s] = NewObj(g) /\ \A r \in Slots : objs[r] = NewObj(g) => s <= r

\* The guard the fetch returned, in the caller's variable.
Bind(g) == IF objs = <<>> THEN objs ELSE [objs EXCEPT ![FreeSlot] = NewObj(g)]

\* The object through which guard g was dropped.
Unbind(g) ==
  IF objs = <<>> \/ ~\E s \in Slots : objs[s] = NewObj(g)
  THEN objs
  ELSE [objs EXCEPT ![SlotOf(g)] = Dropped(@)]

\* ------------------------------------------------------------ helpers
NoOp == [kind |-> "none", page |-> NoPage, frame |-> NoFrame, vpid |-> NoPage]

\* The record kept in `last`: the thread, the step, the page and the frame the call
\* is about, and what the call returned ("" while it has not returned).
NoStep == [t |-> NoThread, step |-> "", page |-> NoPage, frame |-> NoFrame, val |-> ""]

Step(t, name, p, f, val) ==
  IF history
  THEN [t |-> t, step |-> name, page |-> p, frame |-> f, val |-> val]
  ELSE NoStep

\* `written` after the frame of page vp was given to another page.
NoteEvicted(vp) ==
  IF history /\ vp # NoPage THEN [written EXCEPT ![vp].evicted = TRUE] ELSE written

\* std::shared_mutex: lock_shared() / lock() return when these hold.
CanLockShared(f)    == rwlatch[f].writer = NoThread
CanLockExclusive(f) == rwlatch[f].writer = NoThread /\ \A u \in Threads : rwlatch[f].readers[u] = 0

\* DiskRequest: data_ is the frame whose buffer the pointer names, NoFrame for null.
Request(t, p, f, w, d) ==
  [page_id |-> p, data |-> f, is_write |-> w, is_deallocate |-> d, callback |-> t]

\* Mutant of FindPageIdByFrame: the scan finds no page for the frame.
FindPageIdByFrame_None(pt, fid) == {}

\* FindPageIdByFrame: the page ids the scan over the page table can return.
FindPageIdByFrame(pt, fid) == {q \in Pages : pt[q] = fid}

\* ------------------------------------------------------------ CheckedReadPage / CheckedWritePage
\* Lines 135-146 / 197-208: Reset the chosen frame and schedule the read of page p.
ReadIn(t, kind, p, use_fid, vp, rep, name) ==
  /\ frames' = [frames EXCEPT ![use_fid] = Reset(@)]
  /\ page_table' = IF vp = NoPage THEN page_table ELSE [page_table EXCEPT ![vp] = NoFrame]
  /\ written' = NoteEvicted(vp)
  /\ replacer' = rep
  /\ request_queue' = Append(request_queue, Request(t, p, use_fid, FALSE, FALSE))
  /\ fut' = [fut EXCEPT ![t] = "pending"]
  /\ pc' = [pc EXCEPT ![t] = "rd_wait"]
  /\ op' = [op EXCEPT ![t] = [kind |-> kind, page |-> p, frame |-> use_fid, vpid |-> NoPage]]
  /\ bpm_latch' = t
  /\ last' = Step(t, name, p, use_fid, "")

\* current_timestamp_ grows with every RecordAccess: a behaviour makes `limit`
\* fetches at most.
TimeLeft(limit) == replacer.current_timestamp < limit

\* From taking the pool latch to the first point where the call blocks or returns.
FetchLocked(t, kind, p) ==
  /\ bpm_latch = NoThread
  /\ UNCHANGED <<rwlatch, disk, guards, active, history, background_thread, listvars,
                 next_page_id, new_ids, objs>>
  /\ IF page_table[p] # NoFrame
     THEN \* hit: RecordAccess, then the guard constructor
          /\ replacer' = RecordAccess(replacer, page_table[p])
          /\ pc' = [pc EXCEPT ![t] = "ctor"]
          /\ op' = [op EXCEPT ![t] = [kind |-> kind, page |-> p,
                                      frame |-> page_table[p], vpid |-> NoPage]]
          /\ bpm_latch' = t
          /\ last' = Step(t, "hit", p, page_table[p], "")
          /\ UNCHANGED <<page_table, free_frames, frames, request_queue, fut, written>>
     ELSE IF free_frames # <<>>
     THEN /\ free_frames' = Tail(free_frames)
          /\ ReadIn(t, kind, p, Head(free_frames), NoPage, replacer, "miss_free")
     ELSE \E order \in Orders(replacer.node_store) :
            LET v == EvictChoice(replacer, order) IN
            IF v = NoFrame
            THEN \* return std::nullopt
                 /\ pc' = [pc EXCEPT ![t] = "idle"]
                 /\ op' = [op EXCEPT ![t] = NoOp]
                 /\ last' = Step(t, "fetch_none", p, NoFrame, "none")
                 /\ UNCHANGED <<page_table, free_frames, frames, replacer,
                                request_queue, fut, bpm_latch, written>>
            ELSE LET rep == EvictRemove(replacer, v)
                     victim_pids == FindPageIdByFrame(page_table, v)
                 IN /\ UNCHANGED free_frames
                    /\ IF victim_pids = {}
                       THEN ReadIn(t, kind, p, v, NoPage, rep, "evict_unmapped")
                       ELSE \E vp \in victim_pids :
                              IF NeedsWriteBack(frames[v])
                              THEN /\ request_queue' =
                                        Append(request_queue, Request(t, vp, v, TRUE, FALSE))
                                   /\ fut' = [fut EXCEPT ![t] = "pending"]
                                   /\ pc' = [pc EXCEPT ![t] = "wb_wait"]
                                   /\ op' = [op EXCEPT ![t] = [kind |-> kind, page |-> p,
                                                               frame |-> v, vpid |-> vp]]
                                   /\ bpm_latch' = t
                                   /\ replacer' = rep
                                   /\ last' = Step(t, "evict_dirty", p, v, "")
                                   /\ UNCHANGED <<page_table, frames, written>>
                              ELSE ReadIn(t, kind, p, v, vp, rep, "evict_clean")

\* No frame is free and Evict has no victim: the fetch of a page that is not
\* resident returns std::nullopt.
NoFrameLeft(p) ==
  /\ page_table[p] = NoFrame
  /\ free_frames = <<>>
  /\ \A order \in Orders(replacer.node_store) : EvictChoice(replacer, order) = NoFrame

\* The call: it takes the pool latch at once when it is free, and waits for it
\* otherwise.  A thread that owns MaxGuards guards calls only when the call gives
\* it no further guard.
Fetch(t, kind, p) ==
  /\ t \in active
  /\ pc[t] = "idle"
  /\ BagCardinality(guards[t]) < MaxGuards \/ (bpm_latch = NoThread /\ NoFrameLeft(p))
  /\ HasRoom
  /\ IF bpm_latch = NoThread
     THEN FetchLocked(t, kind, p)
     ELSE /\ pc' = [pc EXCEPT ![t] = "lock_wait"]
          /\ op' = [op EXCEPT ![t] = [kind |-> kind, page |-> p,
                                      frame |-> NoFrame, vpid |-> NoPage]]
          /\ last' = Step(t, "call", p, NoFrame, "")
          /\ UNCHANGED <<page_table, free_frames, frames, rwlatch, bpm_latch, replacer,
                         disk, request_queue, fut, guards, active, history,
                         background_thread, listvars, next_page_id, new_ids, objs,
                         written>>

FetchResume(t) ==
  /\ pc[t] = "lock_wait"
  /\ op[t].kind \in {"read", "write"}
  /\ FetchLocked(t, op[t].kind, op[t].page)

\* Lines 128-146 / 190-208: the victim's write-back completed.
AfterWriteBack(t) ==
  /\ pc[t] = "wb_wait"
  /\ fut[t] \in {"true", "false"}
  /\ ReadIn(t, op[t].kind, op[t].page, op[t].frame, op[t].vpid, replacer, "wb_done")
  /\ UNCHANGED <<free_frames, rwlatch, disk, guards, active, history, background_thread,
                 listvars, next_page_id, new_ids, objs>>

\* Lines 148-150 / 210-212: the read completed; publish the mapping.
AfterRead(t) ==
  /\ pc[t] = "rd_wait"
  /\ fut[t] \in {"true", "false"}
  /\ page_table' = [page_table EXCEPT ![op[t].page] = op[t].frame]
  /\ replacer' = SetEvictable(RecordAccess(replacer, op[t].frame), op[t].frame, FALSE)
  /\ fut' = [fut EXCEPT ![t] = "none"]
  /\ pc' = [pc EXCEPT ![t] = "ctor"]
  /\ last' = Step(t, "rd_done", op[t].page, op[t].frame, "")
  /\ UNCHANGED <<free_frames, frames, rwlatch, bpm_latch, disk, request_queue, op,
                 guards, active, history, background_thread, listvars, next_page_id,
                 new_ids, objs, written>>

\* ------------------------------------------------------------ page guards
\* rwlatch_.lock_shared() / lock() followed by pin_count_.fetch_add(1).
LatchAndPin(t, kind, f) ==
  /\ IF kind = "read" THEN CanLockShared(f) ELSE CanLockExclusive(f)
  /\ rwlatch' = [rwlatch EXCEPT ![f] =
                   IF kind = "read" THEN [@ EXCEPT !.readers[t] = @ + 1]
                                    ELSE [@ EXCEPT !.writer = t]]

\* ReadPageGuard / WritePageGuard constructor, called with the pool latch held by
\* the calling thread.  The constructor locks *bpm_latch_ (a std::mutex) again:
\* locking a std::mutex the thread owns is undefined.  CtorComplete is the outcome
\* in which the second lock is granted and released again, CtorRelock the outcome
\* in which lock() never returns.
CtorComplete(t) ==
  /\ pc[t] = "ctor"
  /\ LatchAndPin(t, op[t].kind, op[t].frame)
  /\ frames' = [frames EXCEPT ![op[t].frame] =
                  [@ EXCEPT !.pin_count = @ + 1,
                            !.is_dirty = DirtyOnAcquire(op[t].kind, @)]]
  /\ replacer' = SetEvictable(replacer, op[t].frame, FALSE)
  /\ guards' = [guards EXCEPT ![t] =
                  @ (+) SetToBag({[kind |-> op[t].kind, page |-> op[t].page,
                                   frame |-> op[t].frame]})]
  /\ bpm_latch' = NoThread
  /\ pc' = [pc EXCEPT ![t] = "idle"]
  /\ op' = [op EXCEPT ![t] = NoOp]
  /\ objs' = Bind([kind |-> op[t].kind, page |-> op[t].page, frame |-> op[t].frame])
  /\ last' = Step(t, "fetch_guard", op[t].page, op[t].frame, "guard")
  /\ UNCHANGED <<page_table, free_frames, disk, request_queue, fut, active, history,
                 background_thread, listvars, next_page_id, new_ids, written>>

CtorRelock(t) ==
  /\ pc[t] = "ctor"
  /\ LatchAndPin(t, op[t].kind, op[t].frame)
  /\ frames' = [frames EXCEPT ![op[t].frame].pin_count = @ + 1]
  /\ pc' = [pc EXCEPT ![t] = "relock"]
  /\ last' = Step(t, "relock", op[t].page, op[t].frame, "")
  /\ UNCHANGED <<page_table, free_frames, bpm_latch, replacer, disk, request_queue, fut,
                 op, guards, active, history, background_thread, listvars, next_page_id,
                 new_ids, objs, written>>

\* ReadPageGuard::Drop / WritePageGuard::Drop of a valid guard g of thread t, up to
\* the point where it asks for the pool latch: fetch_sub(1), unlock the frame latch.
Drop(t, g) ==
  /\ t \in active
  /\ pc[t] = "idle"
  /\ BagIn(g, guards[t])
  /\ LET prev == frames[g.frame].pin_count
     IN /\ frames' = [frames EXCEPT ![g.frame].pin_count = @ - 1]
        /\ rwlatch' = [rwlatch EXCEPT ![g.frame] =
                         IF g.kind = "read" THEN [@ EXCEPT !.readers[t] = @ - 1]
                                            ELSE [@ EXCEPT !.writer = NoThread]]
        /\ guards' = [guards EXCEPT ![t] = @ (-) SetToBag({g})]
        /\ pc' = [pc EXCEPT ![t] = IF LastUnpin(prev) THEN "drop_wait" ELSE "idle"]
        /\ op' = [op EXCEPT ![t] = IF LastUnpin(prev)
                                   THEN [kind |-> "drop", page |-> g.page,
                                         frame |-> g.frame, vpid |-> NoPage]
                                   ELSE NoOp]
        /\ objs' = Unbind(g)
        /\ last' = Step(t, "drop", g.page, g.frame, "")
  /\ UNCHANGED <<page_table, free_frames, bpm_latch, replacer, disk, request_queue, fut,
                 active, history, background_thread, listvars, next_page_id, new_ids,
                 written>>

\* Drop, lines 102-105 / 219-222: under the pool latch, SetEvictable(frame, true).
DropEvictable(t) ==
  /\ pc[t] = "drop_wait"
  /\ bpm_latch = NoThread
  /\ replacer' = SetEvictable(replacer, op[t].frame, TRUE)
  /\ pc' = [pc EXCEPT ![t] = "idle"]
  /\ op' = [op EXCEPT ![t] = NoOp]
  /\ last' = Step(t, "drop_done", op[t].page, op[t].frame, "")
  /\ UNCHANGED <<page_table, free_frames, frames, rwlatch, bpm_latch, disk,
                 request_queue, fut, guards, active, history, background_thread,
                 listvars, next_page_id, new_ids, objs, written>>

\* A store of b through WritePageGuard::GetDataMut of a valid write guard g of thread t.
WriteData(t, g, b) ==
  /\ t \in active
  /\ pc[t] = "idle"
  /\ BagIn(g, guards[t])
  /\ g.kind = "write"
  /\ frames' = [frames EXCEPT ![g.frame].data = b]
  /\ written' = [written EXCEPT ![g.page] = [byte |-> b, evicted |-> FALSE]]
  /\ last' = Step(t, "store", g.page, g.frame, "")
  /\ UNCHANGED <<page_table, free_frames, rwlatch, bpm_latch, replacer, disk,
                 request_queue, fut, pc, op, guards, active, history, background_thread,
                 listvars, next_page_id, new_ids, objs>>

\* The whole of Drop on object o by a caller that is alone: what it leaves of the
\* frames, the frame latches, the replacer and the caller's valid guards.  An
\* object that is not valid returns at once (lines 92-94 / 210-212).
DropAll(t, o) ==
  IF ~o.is_valid
  THEN [frames |-> frames, rwlatch |-> rwlatch, replacer |-> replacer, guards |-> guards]
  ELSE LET prev == frames[o.frame].pin_count IN
       [frames   |-> [frames EXCEPT ![o.frame].pin_count = @ - 1],
        rwlatch  |-> [rwlatch EXCEPT ![o.frame] =
                        IF o.kind = "read" THEN [@ EXCEPT !.readers[t] = @ - 1]
                                           ELSE [@ EXCEPT !.writer = NoThread]],
        replacer |-> IF LastUnpin(prev) THEN SetEvictable(replacer, o.frame, TRUE)
                                        ELSE replacer,
        guards   |-> [guards EXCEPT ![t] = @ (-) SetToBag({GuardOf(o)})]]

\* Move constructor: a new object in slot d is built from the object in slot s.
MoveConstruct(t, d, s) ==
  /\ t \in active
  /\ pc[t] = "idle"
  /\ d \in Slots /\ s \in Slots
  /\ ~objs[d].live /\ objs[s].live
  /\ objs' = [objs EXCEPT ![d] = objs[s], ![s] = MovedFrom(objs[s])]
  /\ last' = Step(t, "move_ctor", objs[s].page, objs[s].frame, "")
  /\ UNCHANGED <<page_table, free_frames, frames, rwlatch, bpm_latch, replacer, disk,
                 request_queue, fut, pc, op, guards, active, history, background_thread,
                 listvars, next_page_id, new_ids, written>>

\* operator=(that): the object in slot d is assigned from the object in slot s.
\* Self-assignment returns at once; otherwise the target drops what it holds and
\* takes over the source.
MoveAssign(t, d, s) ==
  /\ t \in active
  /\ pc[t] = "idle"
  /\ bpm_latch = NoThread
  /\ d \in Slots /\ s \in Slots
  /\ objs[d].live /\ objs[s].live /\ objs[d].kind = objs[s].kind
  /\ IF d = s
     THEN /\ last' = Step(t, "assign_self", objs[d].page, objs[d].frame, "")
          /\ UNCHANGED <<frames, rwlatch, replacer, guards, objs>>
     ELSE LET r == DropAll(t, objs[d]) IN
          /\ frames' = r.frames
          /\ rwlatch' = r.rwlatch
          /\ replacer' = r.replacer
          /\ guards' = r.guards
          /\ objs' = [objs EXCEPT ![d] = objs[s], ![s] = MovedFrom(objs[s])]
          /\ last' = Step(t, "move_assign", objs[s].page, objs[s].frame,
                          IF objs[d].is_valid /\ objs[s].is_valid THEN "dropped" ELSE "")
  /\ UNCHANGED <<page_table, free_frames, bpm_latch, disk, request_queue, fut, pc, op,
                 active, history, background_thread, listvars, next_page_id, new_ids,
                 written>>

\* Drop() on an object that was dropped or moved from.
DropInvalid(t, s) ==
  /\ t \in active
  /\ pc[t] = "idle"
  /\ s \in Slots
  /\ objs[s].live /\ ~objs[s].is_valid
  /\ LET r == DropAll(t, objs[s]) IN
     /\ frames' = r.frames
     /\ rwlatch' = r.rwlatch
     /\ replacer' = r.replacer
     /\ guards' = r.guards
  /\ last' = Step(t, "drop_invalid", NoPage, NoFrame, "")
  /\ UNCHANGED <<page_table, free_frames, bpm_latch, disk, request_queue, fut, pc, op,
                 active, history, background_thread, listvars, next_page_id, new_ids,
                 objs, written>>

\* The destructor of the object in slot s: Drop(), and the object is gone.
Destroy(t, s) ==
  /\ t \in active
  /\ pc[t] = "idle"
  /\ bpm_latch = NoThread
  /\ s \in Slots
  /\ objs[s].live
  /\ LET r == DropAll(t, objs[s]) IN
     /\ frames' = r.frames
     /\ rwlatch' = r.rwlatch
     /\ replacer' = r.replacer
     /\ guards' = r.guards
  /\ objs' = [objs EXCEPT ![s] = NoObj]
  /\ last' = Step(t, IF objs[s].is_valid THEN "destroy" ELSE "destroy_invalid",
                  objs[s].page, objs[s].frame, "")
  /\ UNCHANGED <<page_table, free_frames, bpm_latch, disk, request_queue, fut, pc, op,
                 active, history, background_thread, listvars, next_page_id, new_ids,
                 written>>

\* ReadPageGuard::Flush / WritePageGuard::Flush of a valid guard g of thread t: a
\* clean frame returns at once, a dirty one has its page written and the call waits
\* for the future.  No latch is taken: the guard holds the frame latch.
GuardFlush(t, g) ==
  /\ t \in active
  /\ pc[t] = "idle"
  /\ BagIn(g, guards[t])
  /\ IF IsClean(frames[g.frame])
     THEN /\ last' = Step(t, "gflush_clean", g.page, g.frame, "")
          /\ UNCHANGED <<request_queue, fut, pc, op>>
     ELSE /\ request_queue' = Append(request_queue, Request(t, g.page, g.frame, TRUE, FALSE))
          /\ fut' = [fut EXCEPT ![t] = "pending"]
          /\ pc' = [pc EXCEPT ![t] = "gf_wait"]
          /\ op' = [op EXCEPT ![t] = [kind |-> "gflush", page |-> g.page,
                                      frame |-> g.frame, vpid |-> NoPage]]
          /\ last' = Step(t, "gflush_sched", g.page, g.frame, "")
  /\ UNCHANGED <<page_table, free_frames, frames, rwlatch, bpm_latch, replacer, disk,
                 guards, active, history, background_thread, listvars, next_page_id,
                 new_ids, objs, written>>

\* Flush, lines 87-88 / 205-206: the future is ready; is_dirty_ = false.
GuardFlushDone(t) ==
  /\ pc[t] = "gf_wait"
  /\ fut[t] \in {"true", "false"}
  /\ frames' = [frames EXCEPT ![op[t].frame].is_dirty = FALSE]
  /\ fut' = [fut EXCEPT ![t] = "none"]
  /\ pc' = [pc EXCEPT ![t] = "idle"]
  /\ op' = [op EXCEPT ![t] = NoOp]
  /\ last' = Step(t, "gflush_done", op[t].page, op[t].frame, "")
  /\ UNCHANGED <<page_table, free_frames, rwlatch, bpm_latch, replacer, disk,
                 request_queue, guards, active, history, background_thread, listvars,
                 next_page_id, new_ids, objs, written>>

\* ------------------------------------------------------------ DeletePage
\* From taking the pool latch to `return false` or to the wait on the future.
DeleteLocked(t, p) ==
  /\ bpm_latch = NoThread
  /\ UNCHANGED <<rwlatch, disk, guards, active, history, background_thread, listvars,
                 next_page_id, new_ids, objs>>
  /\ LET fid == page_table[p] IN
     IF fid # NoFrame /\ Pinned(frames[fid])
     THEN \* return false
          /\ pc' = [pc EXCEPT ![t] = "idle"]
          /\ op' = [op EXCEPT ![t] = NoOp]
          /\ last' = Step(t, "delete_false", p, fid, "false")
          /\ UNCHANGED <<page_table, free_frames, frames, bpm_latch, replacer,
                         request_queue, fut, written>>
     ELSE /\ IF fid # NoFrame
             THEN /\ page_table' = [page_table EXCEPT ![p] = NoFrame]
                  /\ replacer' = SetEvictable(replacer, fid, FALSE)
                  /\ frames' = [frames EXCEPT ![fid] = Reset(@)]
                  /\ free_frames' = Append(free_frames, fid)
             ELSE UNCHANGED <<page_table, replacer, frames, free_frames>>
          /\ request_queue' = Append(request_queue, Request(t, p, NoFrame, FALSE, TRUE))
          /\ fut' = [fut EXCEPT ![t] = "pending"]
          /\ bpm_latch' = t
          /\ pc' = [pc EXCEPT ![t] = "del_wait"]
          /\ op' = [op EXCEPT ![t] = [kind |-> "delete", page |-> p,
                                      frame |-> fid, vpid |-> NoPage]]
          /\ written' = IF history THEN [written EXCEPT ![p] = NoImage] ELSE written
          /\ last' = Step(t, "delete_sched", p, fid, "")

DeletePage(t, p) ==
  /\ t \in active
  /\ pc[t] = "idle"
  /\ IF bpm_latch = NoThread
     THEN DeleteLocked(t, p)
     ELSE /\ pc' = [pc EXCEPT ![t] = "lock_wait"]
          /\ op' = [op EXCEPT ![t] = [kind |-> "delete", page |-> p,
                                      frame |-> NoFrame, vpid |-> NoPage]]
          /\ last' = Step(t, "call", p, NoFrame, "")
          /\ UNCHANGED <<page_table, free_frames, frames, rwlatch, bpm_latch, replacer,
                         disk, request_queue, fut, guards, active, history,
                         background_thread, listvars, next_page_id, new_ids, objs,
                         written>>

DeleteResume(t) ==
  /\ pc[t] = "lock_wait"
  /\ op[t].kind = "delete"
  /\ DeleteLocked(t, op[t].page)

\* Lines 74-77: the future is ready; return true and release the pool latch.
DeleteDone(t) ==
  /\ pc[t] = "del_wait"
  /\ fut[t] \in {"true", "false"}
  /\ fut' = [fut EXCEPT ![t] = "none"]
  /\ bpm_latch' = NoThread
  /\ pc' = [pc EXCEPT ![t] = "idle"]
  /\ op' = [op EXCEPT ![t] = NoOp]
  /\ last' = Step(t, "delete_true", op[t].page, op[t].frame, "true")
  /\ UNCHANGED <<page_table, free_frames, frames, rwlatch, replacer, disk,
                 request_queue, guards, active, history, background_thread, listvars,
                 next_page_id, new_ids, objs, written>>

\* ------------------------------------------------------------ FlushPage
\* Lines 269-276: look the page up under the pool latch and release the latch.
FlushLocked(t, p) ==
  /\ bpm_latch = NoThread
  /\ IF page_table[p] = NoFrame
     THEN /\ pc' = [pc EXCEPT ![t] = "idle"]
          /\ op' = [op EXCEPT ![t] = NoOp]
          /\ last' = Step(t, "flush_false", p, NoFrame, "false")
     ELSE /\ pc' = [pc EXCEPT ![t] = "fl_latch"]
          /\ op' = [op EXCEPT ![t] = [kind |-> "flush", page |-> p,
                                      frame |-> page_table[p], vpid |-> NoPage]]
          /\ last' = Step(t, "flush_found", p, page_table[p], "")
  /\ UNCHANGED <<page_table, free_frames, frames, rwlatch, bpm_latch, replacer, disk,
                 request_queue, fut, guards, active, history, background_thread,
                 listvars, next_page_id, new_ids, objs, written>>

FlushPage(t, p) ==
  /\ t \in active
  /\ pc[t] = "idle"
  /\ IF bpm_latch = NoThread
     THEN FlushLocked(t, p)
     ELSE /\ pc' = [pc EXCEPT ![t] = "lock_wait"]
          /\ op' = [op EXCEPT ![t] = [kind |-> "flush", page |-> p,
                                      frame |-> NoFrame, vpid |-> NoPage]]
          /\ last' = Step(t, "call", p, NoFrame, "")
          /\ UNCHANGED <<page_table, free_frames, frames, rwlatch, bpm_latch, replacer,
                         disk, request_queue, fut, guards, active, history,
                         background_thread, listvars, next_page_id, new_ids, objs,
                         written>>

FlushResume(t) ==
  /\ pc[t] = "lock_wait"
  /\ op[t].kind = "flush"
  /\ FlushLocked(t, op[t].page)

\* Lines 279-291: take the frame latch in write mode; a clean frame returns true.
FlushLatch(t) ==
  /\ pc[t] = "fl_latch"
  /\ CanLockExclusive(op[t].frame)
  /\ IF IsClean(frames[op[t].frame])
     THEN /\ pc' = [pc EXCEPT ![t] = "idle"]
          /\ op' = [op EXCEPT ![t] = NoOp]
          /\ last' = Step(t, "flush_clean", op[t].page, op[t].frame, "true")
          /\ UNCHANGED <<rwlatch, request_queue, fut>>
     ELSE /\ rwlatch' = [rwlatch EXCEPT ![op[t].frame].writer = t]
          /\ request_queue' =
               Append(request_queue, Request(t, op[t].page, op[t].frame, TRUE, FALSE))
          /\ fut' = [fut EXCEPT ![t] = "pending"]
          /\ pc' = [pc EXCEPT ![t] = "fl_wait"]
          /\ op' = op
          /\ last' = Step(t, "flush_sched", op[t].page, op[t].frame, "")
  /\ UNCHANGED <<page_table, free_frames, frames, bpm_latch, replacer, disk, guards,
                 active, history, background_thread, listvars, next_page_id, new_ids,
                 objs, written>>

\* Lines 292-295: the future is ready; clear the dirty flag, unlock, return true.
FlushDone(t) ==
  /\ pc[t] = "fl_wait"
  /\ fut[t] \in {"true", "false"}
  /\ frames' = [frames EXCEPT ![op[t].frame].is_dirty = FALSE]
  /\ rwlatch' = [rwlatch EXCEPT ![op[t].frame].writer = NoThread]
  /\ fut' = [fut EXCEPT ![t] = "none"]
  /\ pc' = [pc EXCEPT ![t] = "idle"]
  /\ op' = [op EXCEPT ![t] = NoOp]
  /\ last' = Step(t, "flush_true", op[t].page, op[t].frame, "true")
  /\ UNCHANGED <<page_table, free_frames, bpm_latch, replacer, disk, request_queue,
                 guards, active, history, background_thread, listvars, next_page_id,
                 new_ids, objs, written>>

\* ------------------------------------------------------------ DiskScheduler
\* std::nullopt in the queue: the end-of-stream marker the destructor puts.
EndOfStream ==
  [page_id |-> NoPage, data |-> NoFrame, is_write |-> FALSE, is_deallocate |-> FALSE,
   callback |-> NoThread]

\* What StartWorkerThread does with a request: it looks at is_write_ only.
Executed(request) == IF request.is_write THEN "write" ELSE "read"

\* One iteration of the worker loop.  WritePage persists the buffer, ReadPage
\* fills the buffer from the on-disk image (nothing to fill behind a null pointer).
StartWorkerThread ==
  /\ background_thread = "running"
  /\ request_queue # <<>>
  /\ Head(request_queue) # EndOfStream
  /\ LET request == Head(request_queue) IN
     /\ request_queue' = Tail(request_queue)
     /\ IF Executed(request) = "write"
        THEN /\ disk' = [disk EXCEPT ![request.page_id] = frames[request.data].data]
             /\ UNCHANGED frames
        ELSE /\ frames' = IF request.data = NoFrame THEN frames
                          ELSE [frames EXCEPT ![request.data].data = disk[request.page_id]]
             /\ UNCHANGED disk
     /\ fut' = [fut EXCEPT ![request.callback] = "true"]
     /\ last' = Step(NoThread, Executed(request), request.page_id, request.data,
                     IF request.is_deallocate THEN "deallocate" ELSE "")
  /\ UNCHANGED <<page_table, free_frames, rwlatch, bpm_latch, replacer, pc, op, guards,
                 active, history, background_thread, listvars, next_page_id, new_ids,
                 objs, written>>

\* One iteration of the worker loop in which the disk manager throws: the catch
\* block leaves success false.  How much of the transfer took place before the
\* exception is not known to the worker: none of it, or all of it.
WorkerThrows ==
  /\ background_thread = "running"
  /\ request_queue # <<>>
  /\ Head(request_queue) # EndOfStream
  /\ LET request == Head(request_queue) IN
     /\ request_queue' = Tail(request_queue)
     /\ \/ UNCHANGED <<disk, frames>>
        \/ /\ Executed(request) = "write"
           /\ disk' = [disk EXCEPT ![request.page_id] = frames[request.data].data]
           /\ UNCHANGED frames
     /\ fut' = [fut EXCEPT ![request.callback] = "false"]
     /\ last' = Step(NoThread, "throw", request.page_id, request.data,
                     IF request.is_deallocate THEN "deallocate" ELSE "")
  /\ UNCHANGED <<page_table, free_frames, rwlatch, bpm_latch, replacer, pc, op, guards,
                 active, history, background_thread, listvars, next_page_id, new_ids,
                 objs, written>>

\* Mutant of Put: the element goes to the front of the queue.
Put_Front(q, r) == <<r>> \o q

\* Channel::Put as Schedule and the destructor use it: the element goes to the
\* back of request_queue_.
Put(q, r) == Append(q, r)

\* Lines 45-47: the worker got std::nullopt; it leaves the loop and the thread ends.
WorkerExit ==
  /\ background_thread = "running"
  /\ request_queue # <<>>
  /\ Head(request_queue) = EndOfStream
  /\ request_queue' = Tail(request_queue)
  /\ background_thread' = "exited"
  /\ last' = Step(NoThread, "exit", NoPage, NoFrame, "")
  /\ UNCHANGED <<page_table, free_frames, frames, rwlatch, bpm_latch, replacer, disk,
                 fut, pc, op, guards, active, history, listvars, next_page_id, new_ids,
                 objs, written>>

\* A client of the scheduler, thread t, whose buffer f holds byte b: it schedules
\* a request for page p with a fresh promise and waits on the future.  Nobody
\* schedules on a scheduler that is being destroyed.
Schedule(t, p, f, b, w) ==
  /\ t \in active
  /\ pc[t] = "idle"
  /\ \A u \in Threads : pc[u] \notin {"join", "destroyed"}
  /\ \A i \in 1..Len(request_queue) : request_queue[i].data # f
  /\ frames' = IF w THEN [frames EXCEPT ![f].data = b] ELSE frames
  /\ request_queue' = Put(request_queue, Request(t, p, f, w, FALSE))
  /\ fut' = [fut EXCEPT ![t] = "pending"]
  /\ pc' = [pc EXCEPT ![t] = "io_wait"]
  /\ last' = Step(t, "schedule", p, f, "")
  /\ UNCHANGED <<page_table, free_frames, rwlatch, bpm_latch, replacer, disk, op,
                 guards, active, history, background_thread, listvars, next_page_id,
                 new_ids, objs, written>>

\* fut.get() returns to the client.
Completed(t) ==
  /\ pc[t] = "io_wait"
  /\ fut[t] \in {"true", "false"}
  /\ fut' = [fut EXCEPT ![t] = "none"]
  /\ pc' = [pc EXCEPT ![t] = "idle"]
  /\ last' = Step(t, "completed", NoPage, NoFrame, fut[t])
  /\ UNCHANGED <<page_table, free_frames, frames, rwlatch, bpm_latch, replacer, disk,
                 request_queue, op, guards, active, history, background_thread,
                 listvars, next_page_id, new_ids, objs, written>>

\* ~DiskScheduler, lines 27-30, run by thread t: Put(std::nullopt), then join.
Destructor(t) ==
  /\ t \in active
  /\ pc[t] = "idle"
  /\ \A u \in Threads : pc[u] \notin {"join", "destroyed"}
  /\ request_queue' = Put(request_queue, EndOfStream)
  /\ pc' = [pc EXCEPT ![t] = "join"]
  /\ last' = Step(t, "dtor", NoPage, NoFrame, "")
  /\ UNCHANGED <<page_table, free_frames, frames, rwlatch, bpm_latch, replacer, disk,
                 fut, op, guards, active, history, background_thread, listvars,
                 next_page_id, new_ids, objs, written>>

\* Line 30: join() returns when the worker thread has ended.
Joined(t) ==
  /\ pc[t] = "join"
  /\ background_thread = "exited"
  /\ pc' = [pc EXCEPT ![t] = "destroyed"]
  /\ last' = Step(t, "dtor_done", NoPage, NoFrame, "")
  /\ UNCHANGED <<page_table, free_frames, frames, rwlatch, bpm_latch, replacer, disk,
                 request_queue, fut, op, guards, active, history, background_thread,
                 listvars, next_page_id, new_ids, objs, written>>

\* ------------------------------------------------------------ specification
InitPool ==
  /\ page_table = [p \in Pages |-> NoFrame]
  /\ free_frames = [i \in 1..NumFrames |-> i - 1]
  /\ frames = [f \in Frames |-> NewFrame]
  /\ rwlatch = [f \in Frames |-> [writer |-> NoThread, readers |-> [t \in Threads |-> 0]]]
  /\ bpm_latch = NoThread
  /\ replacer = NewReplacer
  /\ disk = [p \in Pages |-> 0]
  /\ request_queue = <<>>
  /\ background_thread = "running"
  /\ header = [l \in Levels |-> Nil]
  /\ nodes = [n \in NodeIds |-> NoNode]
  /\ elems = {}
  /\ ret = NoRet
  /\ fut = [t \in Threads |-> "none"]
  /\ pc = [t \in Threads |-> "idle"]
  /\ op = [t \in Threads |-> NoOp]
  /\ guards = [t \in Threads |-> EmptyBag]
  /\ last = NoStep
  /\ written = [p \in Pages |-> [byte |-> 0, evicted |-> FALSE]]
  /\ next_page_id = 0
  /\ new_ids = [t \in Threads |-> <<>>]

\* Every caller thread issues fetches, drops and deletes.
Init == InitPool /\ active = Threads /\ history = FALSE /\ objs = <<>>

Next ==
  \/ \E t \in Threads, p \in Pages : TimeLeft(MaxTime) /\ Fetch(t, "read", p)
  \/ \E t \in Threads, p \in Pages : TimeLeft(MaxTime) /\ Fetch(t, "write", p)
  \/ \E t \in Threads : TimeLeft(MaxTime) /\ FetchResume(t)
  \/ \E t \in Threads : AfterWriteBack(t)
  \/ \E t \in Threads : AfterRead(t)
  \/ \E t \in Threads : CtorComplete(t)
  \/ \E t \in Threads : CtorRelock(t)
  \/ \E t \in Threads : \E g \in BagToSet(guards[t]) : Drop(t, g)
  \/ \E t \in Threads : DropEvictable(t)
  \/ \E t \in Threads, p \in Pages : DeletePage(t, p)
  \/ \E t \in Threads : DeleteResume(t)
  \/ \E t \in Threads : DeleteDone(t)
  \/ StartWorkerThread

Spec == Init /\ [][Next]_vars

\* Every caller thread issues fetches and drops, over longer behaviours.
NextFetch ==
  \/ \E t \in Threads, p \in Pages : TimeLeft(MaxTimeRace) /\ Fetch(t, "read", p)
  \/ \E t \in Threads, p \in Pages : TimeLeft(MaxTimeRace) /\ Fetch(t, "write", p)
  \/ \E t \in Threads : TimeLeft(MaxTimeRace) /\ FetchResume(t)
  \/ \E t \in Threads : AfterWriteBack(t)
  \/ \E t \in Threads : AfterRead(t)
  \/ \E t \in Threads : CtorComplete(t)
  \/ \E t \in Threads : CtorRelock(t)
  \/ \E t \in Threads : \E g \in BagToSet(guards[t]) : Drop(t, g)
  \/ \E t \in Threads : DropEvictable(t)
  \/ StartWorkerThread

SpecFetch == Init /\ [][NextFetch]_vars

\* One caller thread issues every operation, stores through its write guards
\* included; the disk worker runs beside it.
InitSeq == InitPool /\ active = {1} /\ history = TRUE /\ objs = <<>>

NextSeq ==
  \/ \E p \in Pages : TimeLeft(MaxTime) /\ Fetch(1, "read", p)
  \/ \E p \in Pages : TimeLeft(MaxTime) /\ Fetch(1, "write", p)
  \/ AfterWriteBack(1)
  \/ AfterRead(1)
  \/ CtorComplete(1)
  \/ CtorRelock(1)
  \/ \E g \in BagToSet(guards[1]) : Drop(1, g)
  \/ DropEvictable(1)
  \/ \E g \in BagToSet(guards[1]), b \in Bytes : WriteData(1, g, b)
  \/ \E p \in Pages : DeletePage(1, p)
  \/ DeleteDone(1)
  \/ \E p \in Pages : FlushPage(1, p)
  \/ FlushLatch(1)
  \/ FlushDone(1)
  \/ StartWorkerThread

SpecSeq == InitSeq /\ [][NextSeq]_vars

\* ---- the replacer called directly, by one caller
RepRecordAccess(f) ==
  /\ TimeLeft(MaxTimeRep)
  /\ IF ValidId(f)
     THEN /\ replacer' = RecordAccess(replacer, f)
          /\ last' = Step(1, "record", NoPage, f,
                          IF last.step = "evict" /\ last.frame = f THEN "after_evict"
                          ELSE IF f \notin replacer.node_store THEN "fresh"
                          ELSE IF Len(replacer.access_history[f]) = K THEN "pop"
                          ELSE "")
     ELSE /\ replacer' = Rejected(replacer)
          /\ last' = Step(1, "record", NoPage, f, "throw")
  /\ UNCHANGED <<page_table, free_frames, frames, rwlatch, bpm_latch, disk,
                 request_queue, fut, pc, op, guards, active, history, background_thread,
                 listvars, next_page_id, new_ids, objs, written>>

RepSetEvictable(f, set_evictable) ==
  /\ IF ValidId(f)
     THEN /\ replacer' = SetEvictable(replacer, f, set_evictable)
          /\ last' = Step(1, "set_evictable", NoPage, f,
                          IF f \in replacer.node_store THEN "" ELSE "untracked")
     ELSE /\ replacer' = Rejected(replacer)
          /\ last' = Step(1, "set_evictable", NoPage, f, "throw")
  /\ UNCHANGED <<page_table, free_frames, frames, rwlatch, bpm_latch, disk,
                 request_queue, fut, pc, op, guards, active, history, background_thread,
                 listvars, next_page_id, new_ids, objs, written>>

\* In these calls last.frame is the frame id passed, in range or not.
\* Evict: last.frame is the frame returned, NoFrame for std::nullopt; last.val
\* tells what the choice was made among.
RepEvict ==
  /\ \E order \in Orders(replacer.node_store) :
       LET v == EvictChoice(replacer, order) IN
       /\ replacer' = IF v = NoFrame THEN replacer ELSE EvictRemove(replacer, v)
       /\ last' = Step(1, "evict", NoPage, v,
                       IF v = NoFrame THEN "none"
                       ELSE IF Cardinality(Candidates(replacer)) = 1 THEN "single"
                       ELSE IF Infinite(replacer) = {} THEN "kdist"
                       ELSE IF Infinite(replacer) = Candidates(replacer) THEN "inf"
                       ELSE "inf_over_kdist")
  /\ UNCHANGED <<page_table, free_frames, frames, rwlatch, bpm_latch, disk,
                 request_queue, fut, pc, op, guards, active, history, background_thread,
                 listvars, next_page_id, new_ids, objs, written>>

RepRemove(f) ==
  /\ replacer' = Remove(replacer, f)
  /\ last' = Step(1, "remove", NoPage, f,
                  IF f \notin replacer.node_store THEN "untracked"
                  ELSE IF ~replacer.evictable[f] THEN "throw"
                  ELSE IF \E order \in Orders(replacer.node_store) :
                            EvictChoice(replacer, order) # f
                       THEN "not_victim"
                  ELSE "")
  /\ UNCHANGED <<page_table, free_frames, frames, rwlatch, bpm_latch, disk,
                 request_queue, fut, pc, op, guards, active, history, background_thread,
                 listvars, next_page_id, new_ids, objs, written>>

NextRep ==
  \/ \E f \in FrameIds : RepRecordAccess(f)
  \/ \E f \in FrameIds, b \in BOOLEAN : RepSetEvictable(f, b)
  \/ RepEvict
  \/ \E f \in FrameIds : RepRemove(f)

SpecRep == InitSeq /\ [][NextRep]_vars

\* ---- the skip list, called by one caller
skipframe == <<page_table, free_frames, frames, rwlatch, bpm_latch, replacer, disk,
               request_queue, fut, pc, op, guards, active, history, background_thread,
               next_page_id, new_ids, objs, last, written>>

\* Insert(key), with new_height the value RandomHeight() returns if it is called.
Insert(key, new_height) ==
  /\ IF Contains(header, nodes, key)
     THEN /\ ret' = [call |-> "Insert", key |-> key, ok |-> FALSE, count |-> 0]
          /\ UNCHANGED <<header, nodes>>
     ELSE \E n \in FreeIds(nodes) :
            /\ \A m \in FreeIds(nodes) : n <= m
            /\ header' = InsertedHeader(header, nodes, key, new_height, n)
            /\ nodes' = InsertedNodes(header, nodes, key, new_height, n)
            /\ ret' = [call |-> "Insert", key |-> key, ok |-> TRUE, count |-> 0]
  /\ elems' = elems \cup {key}
  /\ UNCHANGED skipframe

Erase(key) ==
  /\ IF ~Contains(header, nodes, key)
     THEN /\ ret' = [call |-> "Erase", key |-> key, ok |-> FALSE, count |-> 0]
          /\ UNCHANGED <<header, nodes>>
     ELSE /\ header' = ErasedHeader(header, nodes, key)
          /\ nodes' = Collect(ErasedHeader(header, nodes, key),
                              ErasedNodes(header, nodes, key))
          /\ ret' = [call |-> "Erase", key |-> key, ok |-> TRUE, count |-> 0]
  /\ elems' = elems \ {key}
  /\ UNCHANGED skipframe

ContainsCall(key) ==
  /\ ret' = [call |-> "Contains", key |-> key, ok |-> Contains(header, nodes, key),
             count |-> 0]
  /\ UNCHANGED <<header, nodes, elems, skipframe>>

SizeCall ==
  /\ ret' = [call |-> "Size", key |-> 0, ok |-> TRUE, count |-> Size(header, nodes)]
  /\ UNCHANGED <<header, nodes, elems, skipframe>>

EmptyCall ==
  /\ ret' = [call |-> "Empty", key |-> 0, ok |-> Empty(header, nodes), count |-> 0]
  /\ UNCHANGED <<header, nodes, elems, skipframe>>

\* Clear: Drop(), then every header link is set to nullptr.
Clear ==
  /\ header' = [l \in Levels |-> Nil]
  /\ nodes' = Collect([l \in Levels |-> Nil], Drop_(header, nodes, 0))
  /\ elems' = {}
  /\ ret' = [call |-> "Clear", key |-> 0, ok |-> TRUE, count |-> 0]
  /\ UNCHANGED skipframe

NextSkip ==
  \/ \E key \in Keys, new_height \in 1..MaxHeight : Insert(key, new_height)
  \/ \E key \in Keys : Erase(key)
  \/ \E key \in Keys : ContainsCall(key)
  \/ SizeCall
  \/ EmptyCall
  \/ Clear

SpecSkip == InitSeq /\ [][NextSkip]_vars

\* ---- thread 1 calls FlushPage while thread 2 fetches and drops
NextFlushRace ==
  \/ \E p \in Pages : TimeLeft(MaxTime) /\ Fetch(2, "read", p)
  \/ \E p \in Pages : TimeLeft(MaxTime) /\ Fetch(2, "write", p)
  \/ AfterWriteBack(2)
  \/ AfterRead(2)
  \/ CtorComplete(2)
  \/ CtorRelock(2)
  \/ \E g \in BagToSet(guards[2]) : Drop(2, g)
  \/ DropEvictable(2)
  \/ \E p \in Pages : FlushPage(1, p)
  \/ FlushResume(1)
  \/ FlushLatch(1)
  \/ FlushDone(1)
  \/ StartWorkerThread

SpecFlushRace == Init /\ [][NextFlushRace]_vars

\* ---- the disk scheduler used directly by two client threads, one of which
\* destroys it in the end
Worker == StartWorkerThread \/ WorkerThrows \/ WorkerExit

NextDisk ==
  \/ \E t \in Threads, p \in Pages, f \in Frames, b \in Bytes, w \in BOOLEAN :
       Schedule(t, p, f, b, w)
  \/ \E t \in Threads : Completed(t)
  \/ \E t \in Threads : Destructor(t)
  \/ \E t \in Threads : Joined(t)
  \/ StartWorkerThread
  \/ WorkerThrows
  \/ WorkerExit

\* The worker thread and a thread blocked in join() or get() run when they can.
InitDisk == InitPool /\ active = Threads /\ history = TRUE /\ objs = <<>>

SpecDisk ==
  /\ InitDisk
  /\ [][NextDisk]_vars
  /\ WF_vars(Worker)
  /\ \A t \in Threads : WF_vars(Joined(t))

\* Mutant of FetchAdd: the counter is read and not advanced.
FetchAdd_Stuck(n) == n

\* next_page_id_.fetch_add(1): the value the counter holds after the call.
FetchAdd(n) == n + 1

\* The NewPage calls that have returned.
Calls == UNION {{<<t, i>> : i \in DOMAIN new_ids[t]} : t \in Threads}

\* BufferPoolManager::NewPage by thread t: one atomic read-modify-write of the
\* counter; the value read is the id returned.  No latch is taken.
NewPage(t) ==
  /\ t \in active
  /\ pc[t] = "idle"
  /\ Cardinality(Calls) < MaxNew
  /\ next_page_id' = FetchAdd(next_page_id)
  /\ new_ids' = [new_ids EXCEPT ![t] = Append(@, next_page_id)]
  /\ last' = Step(t, "new_page", next_page_id, NoFrame, "")
  /\ UNCHANGED <<page_table, free_frames, frames, rwlatch, bpm_latch, replacer, disk,
                 request_queue, fut, pc, op, guards, active, history, background_thread,
                 listvars, objs, written>>

\* Two threads that call NewPage on a fresh pool, in any interleaving.
NextNew == \E t \in Threads : NewPage(t)

SpecNew == Init /\ [][NextNew]_vars

\* One caller whose guards are objects: it fetches into its variables, moves,
\* assigns, drops and destroys them.
InitGuard ==
  InitPool /\ active = {1} /\ history = TRUE /\ objs = [s \in 1..MaxObjs |-> NoObj]

NextGuard ==
  \/ \E p \in Pages : TimeLeft(MaxTime) /\ Fetch(1, "read", p)
  \/ \E p \in Pages : TimeLeft(MaxTime) /\ Fetch(1, "write", p)
  \/ AfterWriteBack(1)
  \/ AfterRead(1)
  \/ CtorComplete(1)
  \/ CtorRelock(1)
  \/ \E g \in BagToSet(guards[1]) : Drop(1, g)
  \/ DropEvictable(1)
  \/ \E d, s \in 1..MaxObjs : MoveConstruct(1, d, s)
  \/ \E d, s \in 1..MaxObjs : MoveAssign(1, d, s)
  \/ \E s \in 1..MaxObjs : DropInvalid(1, s)
  \/ \E s \in 1..MaxObjs : Destroy(1, s)
  \/ StartWorkerThread

SpecGuard == InitGuard /\ [][NextGuard]_vars

\* One caller that fetches, stores through its write guards, flushes through its
\* guards and drops them.
NextFlush ==
  \/ \E p \in Pages : TimeLeft(MaxTime) /\ Fetch(1, "read", p)
  \/ \E p \in Pages : TimeLeft(MaxTime) /\ Fetch(1, "write", p)
  \/ AfterWriteBack(1)
  \/ AfterRead(1)
  \/ CtorComplete(1)
  \/ CtorRelock(1)
  \/ \E g \in BagToSet(guards[1]) : Drop(1, g)
  \/ DropEvictable(1)
  \/ \E g \in BagToSet(guards[1]), b \in Bytes : WriteData(1, g, b)
  \/ \E g \in BagToSet(guards[1]) : GuardFlush(1, g)
  \/ GuardFlushDone(1)
  \/ StartWorkerThread

SpecFlush == InitSeq /\ [][NextFlush]_vars

\* One caller with a disk manager that may fail any request.  The caller takes
\* guards, flushes through them, calls flush_page and delete_page; it stores
\* nothing, so every page image stays as it is on disk.
NextIO ==
  \/ \E p \in Pages : TimeLeft(MaxTime) /\ Fetch(1, "read", p)
  \/ \E p \in Pages : TimeLeft(MaxTime) /\ Fetch(1, "write", p)
  \/ AfterWriteBack(1)
  \/ AfterRead(1)
  \/ CtorComplete(1)
  \/ CtorRelock(1)
  \/ \E g \in BagToSet(guards[1]) : Drop(1, g)
  \/ DropEvictable(1)
  \/ \E g \in BagToSet(guards[1]) : GuardFlush(1, g)
  \/ GuardFlushDone(1)
  \/ \E p \in Pages : DeletePage(1, p)
  \/ DeleteDone(1)
  \/ \E p \in Pages : FlushPage(1, p)
  \/ FlushLatch(1)
  \/ FlushDone(1)
  \/ StartWorkerThread
  \/ WorkerThrows

SpecIO == InitSeq /\ [][NextIO]_vars

\* ------------------------------------------------------------ claims
ValidGuards == UNION {BagToSet(guards[t]) : t \in Threads}

\* C1 (pin safety): while a valid guard for page P exists, P is in the page table,
\* mapped to the guard's frame, and that frame's pin count is at least 1.
C1_PinSafety ==
  \A g \in ValidGuards : page_table[g.page] = g.frame /\ frames[g.frame].pin_count # 0

\* C2 (eviction exclusion): the frame Evict returns (the frame that leaves
\* node_store_) has pin count 0 at the moment it is chosen.
C2_EvictionExclusion ==
  [][\A v \in Frames :
       (v \in replacer.node_store /\ v \notin replacer'.node_store)
         => frames[v].pin_count = 0]_vars

\* C3 (fetch returns): the guard constructor completes while the manager performs
\* the fetch: no call is left waiting, inside the constructor, for the pool latch
\* its own thread holds.
C3_CtorCompletes == \A t \in Threads : pc[t] # "relock"

\* The threads that hold the latch of frame f in a mode that keeps `kind` out.
FrameHolders(f, kind) ==
  {u \in Threads : rwlatch[f].writer = u \/ (kind = "write" /\ rwlatch[f].readers[u] > 0)}

\* Thread t cannot go on before thread u releases a latch.
WaitsFor(t, u) ==
  \/ pc[t] \in {"lock_wait", "drop_wait"} /\ bpm_latch = u
  \/ pc[t] = "ctor" /\ u \in FrameHolders(op[t].frame, op[t].kind)

\* C4 (deadlock freedom): no set of two or more threads in which every thread
\* waits for a latch that another thread of the set holds.
C4_NoWaitCycle ==
  ~ \E S \in SUBSET Threads :
      /\ Cardinality(S) >= 2
      /\ \A t \in S : \E u \in S \ {t} : WaitsFor(t, u)

\* C5 (round trip): a read guard on page P observes the bytes last stored to P
\* through a write guard, whatever fetches of other pages came in between.
C5_RoundTrip ==
  \A g \in ValidGuards :
    (g.kind = "read" /\ written[g.page].byte \in Bytes)
      => frames[g.frame].data = written[g.page].byte

\* The frame that Evict returned in this step, if any.
Victim(v) == v \in replacer.node_store /\ v \notin replacer'.node_store

FetchLockSteps == {"hit", "miss_free", "evict_unmapped", "evict_clean", "evict_dirty",
                   "fetch_none"}

Exhausted(p) ==
  /\ page_table[p] = NoFrame
  /\ free_frames = <<>>
  /\ \A f \in Frames : frames[f].pin_count # 0

\* C7 (pool exhaustion): a fetch returns None exactly when the page is not
\* resident, the free list is empty and every frame is pinned; then nothing of
\* the pool changes and no disk request is issued.
C7_PoolExhaustion ==
  [][last'.step \in FetchLockSteps
       => /\ (last'.val = "none") <=> Exhausted(last'.page)
          /\ (last'.val = "none") => UNCHANGED <<poolvars, rwlatch, bpm_latch>>]_vars

C7_Witness == last.step = "fetch_none" /\ \A f \in Frames : frames[f].pin_count # 0

\* C8 (delete_page): it returns false exactly when the page is resident and
\* pinned, and then changes nothing; otherwise it returns true, and then the page
\* is not in the page table and its former frame is on the free list, unpinned
\* and clean.
C8_DeletePage ==
  [][/\ last'.step \in {"delete_false", "delete_sched"}
          => /\ (last'.step = "delete_false")
                  <=> (page_table[last'.page] # NoFrame
                       /\ frames[page_table[last'.page]].pin_count # 0)
             /\ (last'.step = "delete_false") => UNCHANGED <<poolvars, rwlatch,
                                                             bpm_latch>>
     /\ (pc[1] = "del_wait" /\ pc'[1] # "del_wait")
          => /\ last'.val = "true"
             /\ page_table'[op[1].page] = NoFrame
             /\ op[1].frame # NoFrame
                  => /\ \E i \in 1..Len(free_frames') : free_frames'[i] = op[1].frame
                     /\ frames'[op[1].frame].pin_count = 0
                     /\ ~frames'[op[1].frame].is_dirty]_vars

\* C8 witness: delete_page of a resident, unpinned page returned true.
C8_Witness == last.step = "delete_true" /\ last.frame # NoFrame

\* C9 (deallocation): the worker executes a request that carries the deallocate
\* flag as a deallocation, not as a read or a write.
C9_DeallocateExecuted == last.val = "deallocate" => last.step = "deallocate"

\* C10 (flush_page): false and no effect when the page is not resident; when it is
\* resident, true, with one write of the page queued if the frame is dirty and
\* none if it is clean; the dirty flag is cleared when the write has completed;
\* and after flush_page returned, the frame is clean, so that the next
\* flush_page of the page queues nothing.
C10_FlushPage ==
  [][/\ last'.step \in {"flush_false", "flush_found"}
          => /\ (last'.step = "flush_false") <=> (page_table[last'.page] = NoFrame)
             /\ UNCHANGED <<poolvars, rwlatch, bpm_latch>>
     /\ last'.step = "flush_clean"
          => /\ ~frames[op[1].frame].is_dirty
             /\ UNCHANGED <<poolvars, rwlatch, bpm_latch>>
     /\ last'.step = "flush_sched"
          => /\ frames[op[1].frame].is_dirty
             /\ request_queue' =
                  Append(request_queue, [page_id |-> op[1].page, data |-> op[1].frame,
                                         is_write |-> TRUE, is_deallocate |-> FALSE,
                                         callback |-> 1])
             /\ frames' = frames
     /\ last'.step = "flush_true"
          => /\ fut[1] = "true"
             /\ disk[op[1].page] = frames[op[1].frame].data
             /\ ~frames'[op[1].frame].is_dirty
     /\ (last.step \in {"flush_true", "flush_clean"} /\ last'.step = "flush_found"
         /\ last'.page = last.page)
          => ~frames[page_table[last.page]].is_dirty]_vars

\* C10 witness: a second flush_page of a page found the frame clean, its nonzero
\* contents already on disk.
C10_Witness ==
  /\ last.step = "flush_clean"
  /\ frames[last.frame].data > 0
  /\ disk[last.page] = frames[last.frame].data

\* C11 (dirty flag cleared only by a successful write-back): in every step in
\* which a frame's dirty flag goes from true to false, a caller was waiting for the
\* write of that frame and the completion signal it received was true.
C11_ClearedAfterWrite ==
  [][\A f \in Frames :
       (frames[f].is_dirty /\ ~frames'[f].is_dirty)
         => \E t \in Threads :
              /\ pc[t] \in {"wb_wait", "fl_wait", "gf_wait"}
              /\ op[t].frame = f
              /\ fut[t] = "true"]_vars

\* C12 (dirty-flag soundness): a resident frame whose contents differ from the
\* on-disk image of its page has its dirty flag set.
C12_DirtySound ==
  \A p \in Pages :
    (page_table[p] # NoFrame /\ frames[page_table[p]].data # disk[p])
      => frames[page_table[p]].is_dirty

\* C13 (guard uniqueness): a valid write guard on page P is the only valid guard
\* on P; read guards on P coexist only with read guards.
C13_WriteExclusive ==
  \A t, u \in Threads :
    \A g \in BagToSet(guards[t]), h \in BagToSet(guards[u]) :
      (g.kind = "write" /\ h.page = g.page)
        => (t = u /\ h = g /\ CopiesIn(g, guards[t]) = 1)

\* The pages in the page table.
Resident == {p \in Pages : page_table[p] # NoFrame}

\* C14 (capacity and mapping): the page table has at most NumFrames entries, each
\* maps its page to one frame id in 0 .. NumFrames-1, and no two pages map to the
\* same frame.
C14_Mapping ==
  /\ Cardinality(Resident) <= NumFrames
  /\ \A p \in Resident : page_table[p] \in Frames
  /\ \A p, q \in Resident : page_table[p] = page_table[q] => p = q

\* C14 witness: the table is full after more fetches than there are frames, a
\* guard being held.
C14_Witness ==
  /\ Cardinality(Resident) = NumFrames
  /\ replacer.current_timestamp > NumFrames
  /\ page_table[NumPages - 1] # NoFrame
  /\ ValidGuards # {}

OnFreeList(f) == \E i \in 1..Len(free_frames) : free_frames[i] = f
IsResident(f) == \E p \in Pages : page_table[p] = f
IsEvictable(f) == f \in replacer.node_store /\ replacer.evictable[f]

\* C15 (frame partition): between public operations every frame is in exactly one
\* of three states: on the free list, not mapped and not evictable; resident,
\* pinned and not evictable; resident, unpinned and evictable.
C15_FramePartition ==
  (\A t \in Threads : pc[t] = "idle")
    => \A f \in Frames :
         \/ OnFreeList(f) /\ ~IsResident(f) /\ ~IsEvictable(f)
         \/ ~OnFreeList(f) /\ IsResident(f) /\ frames[f].pin_count # 0 /\ ~IsEvictable(f)
         \/ ~OnFreeList(f) /\ IsResident(f) /\ frames[f].pin_count = 0 /\ IsEvictable(f)

\* The valid guard objects that reference frame f.
ValidOn(f) == {s \in Slots : objs[s].live /\ objs[s].is_valid /\ objs[s].frame = f}

PinsMatch == \A f \in Frames : frames[f].pin_count = Cardinality(ValidOn(f))

\* C16 (guards release exactly once): whenever the caller is between two
\* operations on its guards (creation, move construction, move assignment,
\* Drop, destruction), every frame's pin count is the number of valid guard
\* objects that reference it; Drop or destruction of a guard that was dropped or
\* moved from, and self-assignment, change no pin count, latch or replacer state.
C16_ReleaseOnce ==
  [][/\ pc'[1] = "idle" => PinsMatch'
     /\ last'.step \in {"drop_invalid", "destroy_invalid", "assign_self"}
          => UNCHANGED <<poolvars, rwlatch, bpm_latch, guards>>]_vars

\* C16 witness: a move assignment dropped the valid guard of its target and took
\* over a valid guard, leaving a moved-from object behind.
C16_Witness ==
  /\ last.step = "move_assign"
  /\ last.val = "dropped"
  /\ \E s \in Slots : objs[s].live /\ ~objs[s].is_valid
  /\ \E f \in Frames : Cardinality(ValidOn(f)) = 1 /\ frames[f].pin_count = 1

\* The ids NewPage has returned to thread t.
Returned(t) == {new_ids[t][i] : i \in DOMAIN new_ids[t]}

\* C17 (new_page ids unique and increasing): with two threads calling NewPage in
\* any interleaving on a fresh pool, no id is returned twice (to one thread or to
\* two), the ids returned to one thread are strictly increasing, and the ids
\* returned so far are exactly 0, 1, ..., one per call.
C17_NewPageIds ==
  /\ \A t \in Threads : \A i, j \in DOMAIN new_ids[t] :
        i < j => new_ids[t][i] < new_ids[t][j]
  /\ \A t, u \in Threads : t # u => Returned(t) \cap Returned(u) = {}
  /\ UNION {Returned(t) : t \in Threads}
       = 0 .. (Cardinality(Calls) - 1)

\* C17 witness: both threads have called NewPage at least twice, their calls
\* interleaved.
C17_Witness ==
  /\ \A t \in Threads : Len(new_ids[t]) >= 2
  /\ new_ids[1][1] < new_ids[2][1]
  /\ new_ids[2][1] < new_ids[1][2]

\* The frame the contract names among the candidates: with a frame of fewer than
\* k accesses, the one of those whose oldest timestamp is earliest; otherwise the
\* one with the largest current_timestamp minus its oldest retained timestamp.
Expected(r) ==
  IF Infinite(r) # {}
  THEN CHOOSE f \in Infinite(r) :
         \A g \in Infinite(r) : Head(r.access_history[f]) <= Head(r.access_history[g])
  ELSE CHOOSE f \in Candidates(r) :
         \A g \in Candidates(r) :
           r.current_timestamp - Head(r.access_history[f])
             >= r.current_timestamp - Head(r.access_history[g])

\* C18 (Evict victim selection): an Evict that finds a tracked evictable frame
\* returns the frame the contract names, and in every state the frame chosen is
\* the same under every iteration order of node_store_.
C18_VictimSelection ==
  [][/\ (last'.step = "evict" /\ Candidates(replacer) # {})
          => last'.frame = Expected(replacer)
     /\ \A o1, o2 \in Orders(replacer.node_store) :
          EvictChoice(replacer, o1) = EvictChoice(replacer, o2)]_vars

\* C18 witness: Evict chose by backward k-distance among several frames that all
\* have k accesses.
C18_Witness == last.step = "evict" /\ last.val = "kdist" /\ last.frame \in Frames

\* C19 (Evict frame effect): Evict returns nothing exactly when no tracked frame
\* is evictable, and then leaves the replacer unchanged; otherwise the frame
\* returned was tracked and evictable and is untracked afterwards, with no history
\* and no flag, the size is one less, the clock and every other frame are as
\* before; a RecordAccess on a frame that is not tracked, the next call after its
\* eviction included, leaves it tracked, non-evictable, with a history of one entry.
C19_EvictEffect ==
  [][/\ last'.step = "evict" =>
          /\ (last'.frame = NoFrame) <=> (Candidates(replacer) = {})
          /\ last'.frame = NoFrame => replacer' = replacer
          /\ last'.frame # NoFrame =>
                /\ last'.frame \in Candidates(replacer)
                /\ last'.frame \notin replacer'.node_store
                /\ replacer'.access_history[last'.frame] = <<>>
                /\ ~replacer'.evictable[last'.frame]
                /\ replacer'.curr_size = replacer.curr_size - 1
                /\ replacer'.current_timestamp = replacer.current_timestamp
                /\ replacer'.node_store = replacer.node_store \ {last'.frame}
                /\ \A f \in Frames \ {last'.frame} :
                      /\ replacer'.access_history[f] = replacer.access_history[f]
                      /\ replacer'.evictable[f] = replacer.evictable[f]
     /\ (last'.step = "record" /\ last'.val \in {"after_evict", "fresh"}) =>
          /\ last'.frame \in replacer'.node_store
          /\ replacer'.access_history[last'.frame] = <<replacer'.current_timestamp>>
          /\ ~replacer'.evictable[last'.frame]
          /\ replacer'.curr_size = replacer.curr_size]_vars

\* C19 witness: the call after an eviction was a RecordAccess on the victim, while
\* another frame is tracked.
C19_Witness ==
  /\ last.step = "record"
  /\ last.val = "after_evict"
  /\ Cardinality(replacer.node_store) >= 2

\* C20 (replacer size invariant): after any sequence of RecordAccess,
\* SetEvictable, Evict and Remove calls, failing ones included, Size() is the
\* number of tracked frames whose evictable flag is set, and lies in 0..N.
C20_SizeInvariant ==
  /\ replacer.curr_size = Cardinality(Candidates(replacer))
  /\ replacer.curr_size >= 0
  /\ replacer.curr_size <= NumFrames

\* C20 witness: a Remove of a non-evictable frame has just thrown while another
\* frame is evictable.
C20_Witness ==
  /\ last.step = "remove"
  /\ last.val = "throw"
  /\ replacer.curr_size = 1

\* The last n elements of sequence q (all of it when it has fewer).
LastN(q, n) == IF Len(q) <= n THEN q ELSE SubSeq(q, Len(q) - n + 1, Len(q))

\* C21 (record_access history): a successful RecordAccess advances the clock by
\* one; a frame seen for the first time becomes tracked and non-evictable with
\* the new timestamp as its whole history; a tracked frame's history becomes the
\* k most recent of its former entries and the new timestamp; no other frame
\* changes.  In every state a tracked frame holds between 1 and k timestamps in
\* strictly increasing order, none later than the clock, and no timestamp
\* occurs in the histories of two frames.
C21_RecordHistory ==
  [][/\ (last'.step = "record" /\ last'.val # "throw") =>
          LET f == last'.frame IN
          /\ replacer'.current_timestamp = replacer.current_timestamp + 1
          /\ f \in replacer'.node_store
          /\ replacer'.access_history[f] =
                IF f \in replacer.node_store
                THEN LastN(Append(replacer.access_history[f],
                                  replacer'.current_timestamp), K)
                ELSE <<replacer'.current_timestamp>>
          /\ f \notin replacer.node_store => ~replacer'.evictable[f]
          /\ f \in replacer.node_store
               => replacer'.evictable[f] = replacer.evictable[f]
          /\ \A g \in Frames \ {f} :
                /\ replacer'.access_history[g] = replacer.access_history[g]
                /\ replacer'.evictable[g] = replacer.evictable[g]
                /\ (g \in replacer'.node_store) = (g \in replacer.node_store)
     /\ \A f \in replacer.node_store :
          LET h == replacer.access_history[f] IN
          /\ Len(h) >= 1 /\ Len(h) <= K
          /\ \A i \in 1..Len(h) : h[i] >= 1 /\ h[i] <= replacer.current_timestamp
          /\ \A i, j \in 1..Len(h) : i < j => h[i] < h[j]
          /\ \A g \in replacer.node_store \ {f} :
                \A i \in 1..Len(h), j \in 1..Len(replacer.access_history[g]) :
                  h[i] # replacer.access_history[g][j]]_vars

\* C21 witness: a RecordAccess on a frame that already held k timestamps dropped
\* the oldest, while another frame is tracked.
C21_Witness ==
  /\ last.step = "record"
  /\ last.val = "pop"
  /\ Len(replacer.access_history[last.frame]) = K
  /\ Cardinality(replacer.node_store) >= 2

C23_Remove ==
  [][last'.step = "remove" =>
       LET f == last'.frame IN
       /\ f \notin replacer.node_store => replacer' = replacer
       /\ (f \in replacer.node_store /\ ~replacer.evictable[f])
            => (replacer' = replacer /\ last'.val = "throw")
       /\ (f \in replacer.node_store /\ replacer.evictable[f]) =>
            /\ replacer'.node_store = replacer.node_store \ {f}
            /\ replacer'.access_history[f] = <<>>
            /\ ~replacer'.evictable[f]
            /\ replacer'.curr_size = replacer.curr_size - 1
            /\ replacer'.current_timestamp = replacer.current_timestamp
            /\ \A g \in Frames \ {f} :
                  /\ replacer'.access_history[g] = replacer.access_history[g]
                  /\ replacer'.evictable[g] = replacer.evictable[g]]_vars

\* C23 witness: Remove erased an evictable frame that Evict would not have
\* chosen.
C23_Witness ==
  /\ last.step = "remove"
  /\ last.val = "not_victim"
  /\ last.frame \notin replacer.node_store
  /\ replacer.curr_size >= 1

\* C24 (history reset on leaving the pool): a frame on the free list has no
\* access history in the replacer, and when a frame is installed for a page its
\* history is the single access of that installation.
C24_HistoryReset ==
  [][/\ \A f \in Frames : OnFreeList(f) => replacer.access_history[f] = <<>>
     /\ \A f \in Frames, p \in Pages :
          (page_table[p] # f /\ page_table'[p] = f)
            => replacer'.access_history[f] = <<replacer'.current_timestamp>>]_vars

\* A thread blocked in fut.get() on a request that has not completed.
AwaitsDisk(t) == fut[t] = "pending"

\* C25 (pool latch and disk I/O): a thread that waits for the completion of a
\* disk request while it holds the pool latch is in miss resolution, waiting for
\* the write-back of the victim or the read-in of the page it fetches.
C25_LatchAcrossIO ==
  \A t \in Threads :
    (bpm_latch = t /\ AwaitsDisk(t)) => pc[t] \in {"wb_wait", "rd_wait"}

\* The step just taken is an iteration of the worker loop on a request.
WorkerStepped == last'.t = NoThread /\ last'.step \in {"read", "write", "throw"}

\* C26 (disk channel ordering and completion): Schedule and the destructor add
\* at the back of the queue and the worker takes from the front, so requests are
\* executed in the order they were scheduled; an iteration of the worker
\* completes the pending future of the request it took, and no other, with true
\* after the transfer took place and with false when the disk manager threw; a
\* future changes from pending in no other step; the worker exits with no
\* request left in the queue or pending, the destructor returns only after the
\* worker has exited, and once the destructor has put the marker it returns.
C26_DiskChannel ==
  /\ [][/\ last'.step \in {"schedule", "dtor"} =>
             /\ Len(request_queue') = Len(request_queue) + 1
             /\ SubSeq(request_queue', 1, Len(request_queue)) = request_queue
        /\ WorkerStepped =>
             LET r == Head(request_queue) IN
             /\ request_queue' = Tail(request_queue)
             /\ r # EndOfStream
             /\ fut[r.callback] = "pending"
             /\ fut' = [fut EXCEPT ![r.callback] =
                          IF last'.step = "throw" THEN "false" ELSE "true"]
             /\ (last'.step = "write") = (r.is_write /\ fut'[r.callback] = "true")
             /\ last'.step = "write" => disk'[r.page_id] = frames[r.data].data
             /\ last'.step = "read" => frames'[r.data].data = disk[r.page_id]
        /\ (\E t \in Threads : fut[t] = "pending" /\ fut'[t] # "pending")
             => WorkerStepped
        /\ last'.step = "exit" =>
             /\ request_queue' = <<>>
             /\ \A t \in Threads : fut[t] # "pending"
        /\ last'.step = "dtor_done" =>
             /\ background_thread = "exited"
             /\ \A t \in Threads : fut[t] # "pending"]_vars
  /\ ((\E t \in Threads : pc[t] = "join") ~> (\E t \in Threads : pc[t] = "destroyed"))

\* C26 witness: the worker has just exited after it drained a request that was
\* scheduled before the marker; its client has its result, the destructor is
\* still in join().
C26_Witness ==
  /\ last.step = "exit"
  /\ background_thread = "exited"
  /\ \E t \in Threads : pc[t] = "io_wait" /\ fut[t] \in {"true", "false"}
  /\ \E t \in Threads : pc[t] = "join"

\* C27 (flush writes the right image): when the worker writes the bytes of a
\* write request that FlushPage issued for page P, the frame that holds them is
\* the frame the page table maps P to.
C27_FlushRightImage ==
  [][\A t \in Threads :
       (pc[t] = "fl_wait" /\ AwaitsDisk(t) /\ ~AwaitsDisk(t)')
         => page_table[op[t].page] = op[t].frame]_vars

\* The keys met along `level` from node n, in order.
RECURSIVE Chain(_, _)
Chain(n, level) ==
  IF n = Nil THEN <<>>
  ELSE <<nodes[n].key>> \o Chain(NextNode(header, nodes, n, level), level)

Level(level) == Chain(header[level], level)

Sorted(q) == \A i, j \in 1..Len(q) : i < j => Compare(q[i], q[j])

KeysOf(q) == {q[i] : i \in 1..Len(q)}

\* C28 (skip list set semantics): over every sequence of Insert, Erase,
\* Contains, Size, Empty and Clear calls on keys 1..MaxKey with every choice of
\* node heights in 1..MaxHeight: Insert returns true iff the key was absent from
\* the reference set and Erase returns true iff it was present; Contains reports
\* membership, Size the cardinality, Empty emptiness; level 0 holds exactly the
\* keys of the reference set, strictly sorted by the comparator and hence
\* without duplicate, every higher level is sorted and a sublist of level 0,
\* and only the nodes on level 0 are allocated.
C28_SkipListSet ==
  [][/\ ret'.call = "Insert" => ret'.ok = (ret'.key \notin elems)
     /\ ret'.call = "Erase" => ret'.ok = (ret'.key \in elems)
     /\ ret'.call = "Contains" => ret'.ok = (ret'.key \in elems)
     /\ ret'.call = "Size" => ret'.count = Cardinality(elems)
     /\ ret'.call = "Empty" => ret'.ok = (elems = {})
     /\ Sorted(Level(0))
     /\ KeysOf(Level(0)) = elems
     /\ \A l \in Levels : Sorted(Level(l)) /\ KeysOf(Level(l)) \subseteq KeysOf(Level(0))
     /\ Cardinality(NodeIds \ FreeIds(nodes)) = Cardinality(elems)]_vars

\* C28 witness: Erase has removed a key between two others that stay, one of
\* them in a node of full height.
C28_Witness ==
  /\ ret.call = "Erase"
  /\ ret.ok
  /\ \E a, b \in elems : a < ret.key /\ ret.key < b
  /\ \E n \in NodeIds : nodes[n].height = MaxHeight
=============================================================================
